---- MODULE Spec2Model ----
(***************************************************************************)
(* fs-js: File (size / slice / stream) over a native handle, the push-to-  *)
(* pull bridge of NodeFile.stream and the seek range reader of             *)
(* DenoFile.stream, driven by a consumer that reads or cancels.            *)
(*                                                                         *)
(* One step of the model is one run-to-completion task of the JavaScript   *)
(* event loop (a notification of the native producer, the resolution of a  *)
(* native read, or a call made by the consumer) together with the          *)
(* microtasks it triggers.  The byte at offset i of the file is i, so a    *)
(* sequence of delivered bytes names the offsets it was read from.         *)
(***************************************************************************)
EXTENDS Integers, Sequences, FiniteSets, TLC

\* ------------------------------------------------------------------ bounds
MaxSize == 3        \* largest native file, in bytes
ChunkLen == 1       \* bytes per chunk handed over by the native layer
MaxSlices == 2      \* slice calls applied before streaming
MaxCloseNotes == 2  \* 'close' notifications the producer may deliver
MaxAdds == 2        \* addFiles calls on the in-memory tree
MaxStreams == 2     \* stream() calls made on the File
MaxPathLen == 2     \* segments of a relative path handed to DirectoryTree.openFile

\* --------------------------------------------------------- JavaScript values
Num(n) == [t |-> "int", v |-> n]
Undefined == [t |-> "undefined", v |-> 0]
NaN == [t |-> "NaN", v |-> 0]

IsInt(x) == x.t = "int"

\* `x ? x : y` takes x only when it is truthy: 0, undefined and NaN are not
Truthy(x) == IsInt(x) /\ x.v # 0

\* `a - b`: a number when both are numbers, NaN otherwise
Sub(a, b) == IF IsInt(a) /\ IsInt(b) THEN Num(a.v - b.v) ELSE NaN

Min(a, b) == IF a < b THEN a ELSE b

\* bytes [lo, hi) of the file, as the sequence of their offsets
Range(lo, hi) == [i \in 1..(IF hi > lo THEN hi - lo ELSE 0) |-> lo + i - 1]

RECURSIVE Flat(_)
Flat(q) == IF q = <<>> THEN <<>> ELSE Head(q) \o Flat(Tail(q))

\* ----------------------------------------------------------------- File
\* File.constructor: _start, _end, and _size = end - start
NewFile(start, end) == [start |-> start, end |-> end, size |-> Sub(end, start)]

\* the bound slice keeps: the argument when truthy, else the current bound
SliceBound(arg, cur) == IF Truthy(arg) THEN arg ELSE cur

\* NodeFile.slice / DenoFile.slice
Slice(f, start, end) == NewFile(SliceBound(start, f.start), SliceBound(end, f.end))

\* top-level openFile(path): NodeFile(f) gets no range, DenoFile gets [0, size)
OpenFileResult(k, sz) ==
  IF k = "node" THEN NewFile(Undefined, Undefined) ELSE NewFile(Num(0), Num(sz))

\* NodeDirectoryTree.openFile / DenoDirectoryTree.openFile: [0, stat size)
TreeOpenFileResult(k, sz) == NewFile(Num(0), Num(sz))

\* arguments a caller may hand to slice
SliceArgs == {Undefined} \cup {Num(n) : n \in -1..MaxSize}

\* ---------------------------------------------------------------- paths
\* a path is the sequence of its segments; the tree's root directory
Root == <<"srv">>

\* files of the filesystem: one under the root, one beside it
FsFiles == {<<"srv", "f">>, <<"secret">>}

Segs == {"..", "f", "secret"}
RelPaths == UNION {[1..n -> Segs] : n \in 1..MaxPathLen}

\* path.join normalises: a ".." segment removes the segment before it
RECURSIVE Normalize(_, _)
Normalize(stack, rest) ==
  IF rest = <<>> THEN stack
  ELSE IF Head(rest) = ".."
       THEN Normalize(IF stack = <<>> THEN <<>>
                      ELSE SubSeq(stack, 1, Len(stack) - 1), Tail(rest))
       ELSE Normalize(Append(stack, Head(rest)), Tail(rest))

\* nodePath.join(this._rootPath, path) / denoPath.join(this._rootPath, path)
PathJoin(root, rel) == Normalize(<<>>, root \o rel)

\* the path the tree hands to the native open: the join, unchecked
TreeAbsPath(rel) == PathJoin(Root, rel)

\* ------------------------------------------------- BrowserDirectoryTree
\* names of the files a user may pick
Names == {"a", "b"}

\* '/' + file.name
Key(n) == <<"/", n>>

\* properties every object literal inherits from Object.prototype
ObjectProtoKeys == {<<"toString">>}

\* paths a caller may hand to openFile
LookupPaths == {Key(n) : n \in Names} \cup ObjectProtoKeys

NoSuchFile == [t |-> "NoSuchFile", v |-> 0]
FileObj(id) == [t |-> "file", v |-> id]
Inherited == [t |-> "inherited", v |-> 0]

\* this._files[path] on `this._files = {}`: the own entry, else what the
\* object inherits, else undefined
FilesGet(fs, path) ==
  IF \E n \in Names : path = Key(n) /\ fs[n] # 0
  THEN FileObj(fs[CHOOSE n \in Names : path = Key(n)])
  ELSE IF path \in ObjectProtoKeys THEN Inherited ELSE Undefined

\* BrowserDirectoryTree.openFile: the value when not undefined, else throw
BrowserOpenFileResult(fs, path) ==
  IF FilesGet(fs, path) # Undefined THEN FilesGet(fs, path) ELSE NoSuchFile

\* this._files['/' + file.name] = file
AddEntryMutant(cur, new) == IF cur # 0 THEN cur ELSE new
AddEntry(cur, new) == new

NoLookup == [path |-> <<>>, out |-> Undefined]

NoSlice == [rs |-> Undefined, re |-> Undefined, a |-> Undefined, b |-> Undefined,
            threw |-> FALSE]

VARIABLES
  kind,         \* "node" | "deno": the runtime, hence the File realisation
  fileSize,     \* size of the native file
  phase,        \* "unopened" | "file" | "streaming"
  how,          \* "none" | "openFile" | "tree": what opened the File
  openedAbs,    \* absolute path handed to the native open
  file,         \* the current File: [start, end, size]
  files,        \* browser tree: own entries of _files, name -> file object (0: none)
  addLog,       \* browser tree: the names picked in each addFiles call so far
  lookup,       \* browser tree: the last openFile call and its outcome
  nslices,      \* slice calls made so far
  lastSlice,    \* the last slice call: receiver range, arguments, outcome
  rsState,      \* ReadableStream state: "readable" | "closed" | "errored"
  started,      \* the source's start() has settled
  closeRequested, \* controller.close() accepted, queue not yet drained
  queue,        \* the ReadableStream's internal queue of chunks
  readPending,  \* the consumer has a read() waiting for a chunk
  delivered,    \* bytes the consumer has received, in order
  eos,          \* the consumer has seen end-of-sequence (read gave done)
  cancelled,    \* the consumer has called cancel()
  flowing,      \* node producer not paused
  nodePos,      \* offset of the next byte the node producer emits
  done,         \* the bridge's `done` flag
  closeCalls,   \* times controller.close() was called by the source
  closeNotes,   \* 'close' notifications delivered by the node producer
  lateData,     \* 'data' notifications delivered after cancellation
  nativeClosed, \* the native producer / file resource has been released
  pulling,      \* deno: a pull (native read) is in flight
  dpos,         \* deno: position of the native handle
  seeks,        \* deno: seek calls made on the handle
  direct,       \* deno: stream() returned the handle's own readable
  reads,        \* deno: native reads issued by pull() in this stream
  lastPull,     \* deno: what the last settled pull did: "none" | "enqueue" | "close" | "both"
  streamNo      \* stream() calls made on the File so far

browserVars == <<files, addLog, lookup>>
fileVars == <<kind, fileSize, streamNo, phase, how, openedAbs, file, nslices, lastSlice,
              browserVars>>
rsVars == <<rsState, started, closeRequested, queue, readPending, delivered,
            eos, cancelled>>
nodeVars == <<flowing, nodePos, done, closeCalls, closeNotes, lateData>>
denoVars == <<pulling, dpos, seeks, direct, reads, lastPull>>
vars == <<fileVars, rsVars, nodeVars, denoVars, nativeClosed>>

Init ==
  /\ kind \in {"node", "deno", "browser"}
  /\ fileSize \in 0..MaxSize
  /\ phase = "unopened"
  /\ how = "none"
  /\ openedAbs = <<>>
  /\ files = [n \in Names |-> 0]
  /\ addLog = <<>>
  /\ lookup = NoLookup
  /\ file = NewFile(Undefined, Undefined)
  /\ nslices = 0
  /\ lastSlice = NoSlice
  /\ rsState = "readable"
  /\ started = FALSE
  /\ closeRequested = FALSE
  /\ queue = <<>>
  /\ readPending = FALSE
  /\ delivered = <<>>
  /\ eos = FALSE
  /\ cancelled = FALSE
  /\ flowing = FALSE
  /\ nodePos = 0
  /\ done = FALSE
  /\ closeCalls = 0
  /\ closeNotes = 0
  /\ lateData = 0
  /\ nativeClosed = FALSE
  /\ pulling = FALSE
  /\ dpos = 0
  /\ seeks = 0
  /\ direct = FALSE
  /\ reads = 0
  /\ lastPull = "none"
  /\ streamNo = 0

\* openFile(path), RUNTIME_NODE and RUNTIME_DENO
OpenFile ==
  /\ kind # "browser"
  /\ phase = "unopened"
  /\ phase' = "file"
  /\ how' = "openFile"
  /\ openedAbs' = <<"srv", "f">>
  /\ file' = OpenFileResult(kind, fileSize)
  /\ UNCHANGED <<kind, fileSize, streamNo, browserVars, nslices, lastSlice, rsVars, nodeVars, denoVars,
                 nativeClosed>>

\* openDirectory(root) then DirectoryTree.openFile(path): the native open
\* rejects (no File) when nothing exists at the joined path
TreeOpenFile ==
  /\ kind # "browser"
  /\ phase = "unopened"
  /\ \E rel \in RelPaths :
       /\ TreeAbsPath(rel) \in FsFiles
       /\ openedAbs' = TreeAbsPath(rel)
  /\ phase' = "file"
  /\ how' = "tree"
  /\ file' = TreeOpenFileResult(kind, fileSize)
  /\ UNCHANGED <<kind, fileSize, streamNo, browserVars, nslices, lastSlice, rsVars, nodeVars, denoVars,
                 nativeClosed>>

\* file = file.slice(a, b): no validation, always a new File
SliceCall ==
  /\ phase = "file"
  /\ nslices < MaxSlices
  /\ \E a \in SliceArgs, b \in SliceArgs :
       /\ file' = Slice(file, a, b)
       /\ lastSlice' = [rs |-> file.start, re |-> file.end, a |-> a, b |-> b,
                        threw |-> FALSE]
  /\ nslices' = nslices + 1
  /\ UNCHANGED <<kind, fileSize, streamNo, phase, how, openedAbs, browserVars, rsVars, nodeVars,
                 denoVars,
                 nativeClosed>>

\* BrowserDirectoryTree.addFiles: the user picks files; each is stored
\* under '/' + name
BrowserAddFiles ==
  /\ kind = "browser"
  /\ Len(addLog) < MaxAdds
  /\ \E sel \in (SUBSET Names) \ {{}} :
       /\ files' = [n \in Names |->
                      IF n \in sel THEN AddEntry(files[n], Len(addLog) + 1)
                      ELSE files[n]]
       /\ addLog' = Append(addLog, sel)
  /\ UNCHANGED <<kind, fileSize, streamNo, phase, how, openedAbs, file, nslices, lastSlice,
                 lookup, rsVars, nodeVars, denoVars, nativeClosed>>

\* BrowserDirectoryTree.openFile(path)
BrowserOpenFile ==
  /\ kind = "browser"
  /\ \E path \in LookupPaths :
       lookup' = [path |-> path, out |-> BrowserOpenFileResult(files, path)]
  /\ UNCHANGED <<kind, fileSize, streamNo, phase, how, openedAbs, file, nslices, lastSlice,
                 files, addLog, rsVars, nodeVars, denoVars, nativeClosed>>

\* ----------------------------------------------------- ReadableStream
\* new ReadableStream(source) with no queuing strategy: high-water mark 1,
\* every chunk counts 1
HighWaterMark == 1

\* controller.desiredSize: high-water mark minus queued chunks; 0 once the
\* stream is closed, null (never > 0) once it is errored
DesiredSize(st, q) == IF st = "readable" THEN HighWaterMark - Len(q) ELSE 0

\* the controller accepts enqueue() and close()
CanCloseOrEnqueue(st, creq) == st = "readable" /\ ~creq

\* the stream calls the source's pull(): started, still open, and a read is
\* waiting or the queue is below the high-water mark
ShouldCallPull(st, creq, strt, rp, q) ==
  /\ CanCloseOrEnqueue(st, creq)
  /\ strt
  /\ (rp \/ DesiredSize(st, q) > 0)

\* ------------------------------------------------- NodeFile.stream (bridge)
\* createReadStream({start, end}): start defaults to 0, end is the offset of
\* the last byte read (inclusive) and defaults to the end of the file
NodeLo(f) == IF IsInt(f.start) THEN f.start.v ELSE 0
NodeStop(f, sz) == IF IsInt(f.end) THEN Min(f.end.v + 1, sz) ELSE sz

\* createReadStream throws on a negative bound or on start > end
NodeRangeOk(f) ==
  /\ IsInt(f.start) => f.start.v >= 0
  /\ IsInt(f.end) => f.end.v >= 0
  /\ (IsInt(f.start) /\ IsInt(f.end)) => f.start.v <= f.end.v

\* pull(contr): resume the producer when desiredSize > 0
NodePullResumesMutant(ds) == ds > 1
NodePullResumes(ds) == ds > 0

\* flowing flag after the stream has decided whether to call pull
NodeAfterPull(st, creq, strt, rp, q, fl) ==
  IF ShouldCallPull(st, creq, strt, rp, q) /\ NodePullResumes(DesiredSize(st, q))
  THEN TRUE ELSE fl

\* 'data' handler: enqueue when controller.desiredSize > 0, else pause
NodeOnDataEnqueuesMutant(ds) == ds >= 0
NodeOnDataEnqueues(ds) == ds > 0

\* 'close' handler: signal end-of-sequence unless done
NodeOnCloseSignalsMutant(d) == TRUE
NodeOnCloseSignals(d) == ~d

\* cancel(): done = true
CancelSetsDoneMutant(d) == d
CancelSetsDone(d) == TRUE

\* pull(): the only native call is self._reader.read(); it does not seek
SeeksAfterPull(n) == n

\* pull(): `if (done) controller.close()`
DenoPullCloses(isDone) == isDone

\* pull(): `else controller.enqueue(value)`
DenoPullEnqueuesMutant(isDone) == TRUE
DenoPullEnqueues(isDone) == ~isDone

\* position of the handle after a read that returned the bytes up to stop
DenoPosAfterReadMutant(pos, stop) == pos
DenoPosAfterRead(pos, stop) == stop

\* self._file.readable.getReader() of an earlier stream is never released
ReaderLocked(n) == n > 1

\* file.stream()
StreamCall ==
  /\ phase = "file"
  /\ phase' = "streaming"
  /\ streamNo' = streamNo + 1
  /\ IF kind = "node"
     THEN /\ NodeRangeOk(file)
          /\ nodePos' = NodeLo(file)
          /\ flowing' = TRUE       \* on('data') switches the producer to flowing
          /\ UNCHANGED <<seeks, direct>>
     ELSE /\ IF file.start # Undefined
             THEN seeks' = seeks + 1 /\ direct' = FALSE   \* start(): seek issued
             ELSE direct' = TRUE /\ UNCHANGED seeks
          /\ UNCHANGED <<nodePos, flowing>>
  /\ UNCHANGED <<kind, fileSize, how, openedAbs, file, nslices, lastSlice, browserVars,
                 rsVars, done, closeCalls, closeNotes, lateData, pulling, dpos,
                 reads, lastPull, nativeClosed>>

\* file.stream() once more, after the earlier stream was read to its end:
\* a new ReadableStream with its own done flag over the same handle
Restream ==
  /\ phase = "streaming" /\ ~direct
  /\ eos /\ ~cancelled
  /\ streamNo < MaxStreams
  /\ streamNo' = streamNo + 1
  /\ rsState' = "readable" /\ started' = FALSE /\ closeRequested' = FALSE
  /\ queue' = <<>> /\ readPending' = FALSE /\ delivered' = <<>>
  /\ eos' = FALSE /\ cancelled' = FALSE
  /\ done' = FALSE /\ closeCalls' = 0 /\ closeNotes' = 0 /\ lateData' = 0
  /\ pulling' = FALSE /\ reads' = 0 /\ lastPull' = "none"
  /\ IF kind = "node"
     THEN \* createReadStream on the handle the earlier stream closed at its
          \* end: the producer has no data to deliver
          /\ nodePos' = IF nativeClosed THEN NodeStop(file, fileSize)
                        ELSE NodeLo(file)
          /\ flowing' = TRUE
          /\ UNCHANGED seeks
     ELSE /\ seeks' = 1                             \* start(): seek issued
          /\ UNCHANGED <<nodePos, flowing>>
  /\ UNCHANGED <<kind, fileSize, phase, how, openedAbs, file, nslices, lastSlice,
                 browserVars, dpos, direct, nativeClosed>>

\* the source's start() settles; the stream then pulls if it should
StartResolved ==
  /\ phase = "streaming" /\ ~started /\ ~direct
  /\ IF kind = "node"
     THEN /\ started' = TRUE
          /\ flowing' = NodeAfterPull(rsState, closeRequested, TRUE, readPending,
                                      queue, flowing)
          /\ UNCHANGED <<rsState, pulling, dpos, reads, seeks>>
     ELSE IF file.start.v < 0 \/ nativeClosed \/ ReaderLocked(streamNo)
          THEN \* seek or getReader rejects: the stream is errored unless
               \* already closed
               /\ rsState = "readable"
               /\ rsState' = "errored"
               /\ UNCHANGED <<started, flowing, pulling, dpos, reads, seeks>>
          ELSE /\ started' = TRUE
               /\ dpos' = file.start.v
               /\ pulling' = ShouldCallPull(rsState, closeRequested, TRUE,
                                            readPending, queue)
               /\ reads' = IF pulling' THEN reads + 1 ELSE reads
               /\ seeks' = IF pulling' THEN SeeksAfterPull(seeks) ELSE seeks
               /\ UNCHANGED <<rsState, flowing>>
  /\ UNCHANGED <<fileVars, closeRequested, queue, readPending, delivered, eos,
                 cancelled, nodePos, done, closeCalls, closeNotes, lateData,
                 direct, lastPull, nativeClosed>>

\* the producer delivers a 'data' notification with its next chunk
NodeData ==
  /\ kind = "node" /\ phase = "streaming" /\ started
  /\ flowing /\ closeNotes = 0
  /\ nodePos < NodeStop(file, fileSize)
  /\ LET stop == Min(nodePos + ChunkLen, NodeStop(file, fileSize))
         chunk == Range(nodePos, stop)
     IN /\ nodePos' = stop
        /\ lateData' = IF cancelled THEN lateData + 1 ELSE lateData
        /\ IF NodeOnDataEnqueues(DesiredSize(rsState, queue))
           THEN IF CanCloseOrEnqueue(rsState, closeRequested)
                THEN /\ IF readPending
                        THEN /\ delivered' = delivered \o chunk
                             /\ readPending' = FALSE
                             /\ queue' = queue
                        ELSE /\ queue' = Append(queue, chunk)
                             /\ UNCHANGED <<delivered, readPending>>
                     /\ flowing' = NodeAfterPull(rsState, closeRequested, started,
                                                 readPending', queue', flowing)
                ELSE UNCHANGED <<queue, delivered, readPending, flowing>>
           ELSE /\ flowing' = FALSE          \* nodeStream.pause(); chunk let go
                /\ UNCHANGED <<queue, delivered, readPending>>
  /\ UNCHANGED <<fileVars, rsState, started, closeRequested, eos, cancelled, done,
                 closeCalls, closeNotes, denoVars, nativeClosed>>

\* the producer delivers a 'close' notification
NodeCloseNote ==
  /\ kind = "node" /\ phase = "streaming" /\ started
  /\ closeNotes < MaxCloseNotes
  /\ \/ flowing /\ nodePos >= NodeStop(file, fileSize)
     \/ nativeClosed
  /\ closeNotes' = closeNotes + 1
  /\ nativeClosed' = TRUE
  /\ IF NodeOnCloseSignals(done)
     THEN /\ closeCalls' = closeCalls + 1
          /\ IF CanCloseOrEnqueue(rsState, closeRequested)
             THEN /\ closeRequested' = TRUE
                  /\ rsState' = IF queue = <<>> THEN "closed" ELSE rsState
                  /\ readPending' = FALSE
                  /\ eos' = (eos \/ readPending)
                  /\ done' = TRUE
             ELSE UNCHANGED <<closeRequested, rsState, readPending, eos, done>>
     ELSE UNCHANGED <<closeCalls, closeRequested, rsState, readPending, eos, done>>
  /\ UNCHANGED <<fileVars, started, queue, delivered, cancelled, flowing, nodePos,
                 lateData, denoVars>>

\* a native read issued by pull() resolves: enqueue the chunk or close
DenoReadResolve ==
  /\ kind = "deno" /\ phase = "streaming" /\ pulling
  /\ LET isDone == dpos >= fileSize
         stop == Min(dpos + ChunkLen, fileSize)
         chunk == Range(dpos, stop)
         can == CanCloseOrEnqueue(rsState, closeRequested)
         closes == DenoPullCloses(isDone)
         enqueues == DenoPullEnqueues(isDone)
     IN /\ dpos' = IF isDone THEN dpos ELSE DenoPosAfterRead(dpos, stop)
        /\ nativeClosed' = (nativeClosed \/ isDone)
        /\ closeCalls' = IF closes THEN closeCalls + 1 ELSE closeCalls
        /\ lastPull' = IF closes /\ enqueues THEN "both"
                       ELSE IF closes THEN "close"
                       ELSE IF enqueues THEN "enqueue" ELSE "none"
        /\ IF ~can
           THEN UNCHANGED <<closeRequested, rsState, readPending, eos, queue,
                            delivered>>
           ELSE IF closes
           THEN \* an enqueue after the close is refused by the controller
                /\ closeRequested' = TRUE
                /\ rsState' = IF queue = <<>> THEN "closed" ELSE rsState
                /\ readPending' = FALSE
                /\ eos' = (eos \/ readPending)
                /\ UNCHANGED <<queue, delivered>>
           ELSE IF enqueues
           THEN /\ IF readPending
                   THEN /\ delivered' = delivered \o chunk
                        /\ readPending' = FALSE
                        /\ queue' = queue
                   ELSE /\ queue' = Append(queue, chunk)
                        /\ UNCHANGED <<delivered, readPending>>
                /\ UNCHANGED <<closeRequested, rsState, eos>>
           ELSE UNCHANGED <<closeRequested, rsState, readPending, eos, queue,
                            delivered>>
        /\ pulling' = ShouldCallPull(rsState', closeRequested', started,
                                     readPending', queue')
        /\ reads' = IF pulling' THEN reads + 1 ELSE reads
        /\ seeks' = IF pulling' THEN SeeksAfterPull(seeks) ELSE seeks
  /\ UNCHANGED <<fileVars, started, cancelled, flowing, nodePos, done, closeNotes,
                 lateData, direct>>

\* the consumer calls reader.read()
Read ==
  /\ phase = "streaming" /\ ~direct
  /\ ~readPending /\ ~eos /\ ~cancelled
  /\ rsState # "errored"
  /\ IF rsState = "closed"
     THEN /\ eos' = TRUE
          /\ UNCHANGED <<rsState, queue, delivered, readPending, flowing, pulling,
                         reads, seeks>>
     ELSE /\ IF queue # <<>>
             THEN /\ delivered' = delivered \o Head(queue)
                  /\ queue' = Tail(queue)
                  /\ rsState' = IF closeRequested /\ queue' = <<>>
                                THEN "closed" ELSE rsState
                  /\ UNCHANGED readPending
             ELSE /\ readPending' = TRUE
                  /\ UNCHANGED <<rsState, queue, delivered>>
          /\ UNCHANGED eos
          /\ IF kind = "node"
             THEN /\ flowing' = NodeAfterPull(rsState', closeRequested, started,
                                              readPending', queue', flowing)
                  /\ UNCHANGED <<pulling, reads, seeks>>
             ELSE /\ pulling' = (pulling \/ ShouldCallPull(rsState', closeRequested,
                                             started, readPending', queue'))
                  /\ reads' = IF ~pulling /\ pulling' THEN reads + 1 ELSE reads
                  /\ seeks' = IF ~pulling /\ pulling' THEN SeeksAfterPull(seeks)
                              ELSE seeks
                  /\ UNCHANGED flowing
  /\ UNCHANGED <<fileVars, started, closeRequested, cancelled, nodePos, done,
                 closeCalls, closeNotes, lateData, dpos, direct, lastPull,
                 nativeClosed>>

\* the consumer calls reader.cancel()
Cancel ==
  /\ phase = "streaming" /\ ~direct
  /\ ~cancelled
  /\ cancelled' = TRUE
  /\ IF rsState = "readable"
     THEN /\ rsState' = "closed"
          /\ queue' = <<>>
          /\ readPending' = FALSE
          /\ eos' = (eos \/ readPending)
          /\ IF kind = "node"
             THEN /\ nativeClosed' = TRUE          \* nodeStream.close()
                  /\ done' = CancelSetsDone(done)
             ELSE UNCHANGED <<nativeClosed, done>> \* the source has no cancel()
     ELSE UNCHANGED <<rsState, queue, readPending, eos, nativeClosed, done>>
  /\ UNCHANGED <<fileVars, started, closeRequested, delivered, flowing, nodePos,
                 closeCalls, closeNotes, lateData, denoVars>>

Next ==
  \/ OpenFile
  \/ TreeOpenFile
  \/ BrowserAddFiles
  \/ BrowserOpenFile
  \/ SliceCall
  \/ StreamCall
  \/ Restream
  \/ StartResolved
  \/ NodeData
  \/ NodeCloseNote
  \/ DenoReadResolve
  \/ Read
  \/ Cancel

Spec == Init /\ [][Next]_vars

\* ------------------------------------------------------------- properties
\* the last slice call was f.slice(a, b) on a File f spanning [0, fileSize)
\* with integers 0 <= a <= b <= fileSize
SliceOfWhole ==
  /\ nslices >= 1
  /\ lastSlice.rs = Num(0) /\ lastSlice.re = Num(fileSize)
  /\ IsInt(lastSlice.a) /\ IsInt(lastSlice.b)
  /\ 0 <= lastSlice.a.v /\ lastSlice.a.v <= lastSlice.b.v
  /\ lastSlice.b.v <= fileSize

\* the consumer read until end-of-sequence and never cancelled
ReadToEnd == phase = "streaming" /\ eos /\ ~cancelled

\* C1: a consumer that streams file.slice(a, b), 0 <= a <= b <= size, until
\* end-of-sequence has received exactly the bytes [a, b) of the file
C1_SliceStreamExact ==
  (SliceOfWhole /\ ReadToEnd) =>
     delivered = Range(lastSlice.a.v, lastSlice.b.v)

\* C2: in the bridge, before cancellation, every byte the producer has
\* emitted in a 'data' notification is delivered or still queued downstream
C2_NoChunkDiscarded ==
  (kind = "node" /\ phase = "streaming" /\ ~cancelled) =>
     delivered \o Flat(queue) = Range(NodeLo(file), nodePos)

\* C3: a consumer that streams a whole, never sliced File until
\* end-of-sequence has received exactly size bytes
C3_WholeFileExact ==
  (ReadToEnd /\ nslices = 0 /\ file.start = Num(0) /\ file.end = Num(fileSize)) =>
     Len(delivered) = fileSize

\* C4: f.slice(start, end).size = end - start for f spanning [0, size) and
\* 0 <= start <= end <= size
C4_SliceSize ==
  SliceOfWhole => file.size = Num(lastSlice.b.v - lastSlice.a.v)

\* C5: once the consumer has cancelled, the native resource is released
C5_CancelReleases == cancelled => nativeClosed

\* C6: the bridge calls controller.close() at most once: a 'close'
\* notification while not done signals end-of-sequence and sets done, a
\* 'close' notification while done changes nothing downstream
C6_CloseOnce ==
  /\ [](kind = "node" => closeCalls <= 1)
  /\ [][(kind = "node" /\ closeNotes' = closeNotes + 1) =>
          IF done
          THEN closeCalls' = closeCalls /\ UNCHANGED rsVars /\ done'
          ELSE closeCalls' = closeCalls + 1 /\ done' /\ closeRequested']_vars

\* two 'close' notifications were delivered, one end-of-sequence signalled
C6_Witness ==
  kind = "node" /\ ~cancelled /\ closeNotes = 2 /\ closeCalls = 1 /\ eos

\* C7: once the downstream has cancelled, no producer notification changes
\* the downstream: nothing is enqueued or delivered and controller.close()
\* is not called
C7_IgnoredAfterCancel ==
  [][(kind = "node" /\ cancelled) =>
       /\ queue' = queue /\ delivered' = delivered
       /\ closeCalls' = closeCalls
       /\ rsState' = rsState /\ closeRequested' = closeRequested]_vars

\* after a cancellation that closed the stream, a 'data' and a 'close'
\* notification have both arrived
C7_Witness ==
  kind = "node" /\ cancelled /\ lateData > 0 /\ closeNotes > 0 /\ closeCalls = 0

\* C8: in the bridge the queue never grows while desired capacity is <= 0;
\* a 'data' notification at zero capacity pauses the producer and hands
\* nothing downstream; the producer is resumed only at positive capacity
C8_NoEnqueueAtZeroCapacity ==
  [][(kind = "node" /\ phase = "streaming" /\ streamNo' = streamNo) =>
       /\ DesiredSize(rsState, queue) <= 0 =>
            /\ Len(queue') <= Len(queue)
            /\ nodePos' # nodePos =>
                 (~flowing' /\ queue' = queue /\ delivered' = delivered)
       /\ (~flowing /\ flowing') => DesiredSize(rsState', queue') > 0]_vars

\* a chunk arrived while the queue was full and the producer got paused
C8_Witness ==
  /\ kind = "node" /\ phase = "streaming" /\ ~cancelled
  /\ rsState = "readable" /\ DesiredSize(rsState, queue) = 0
  /\ ~flowing

\* C9: every File obtained by opening and slicing has 0 <= start <= end and
\* a non-negative integer size equal to end - start
C9_FileRangeInvariant ==
  phase # "unopened" =>
     /\ IsInt(file.start) /\ IsInt(file.end) /\ IsInt(file.size)
     /\ 0 <= file.start.v /\ file.start.v <= file.end.v
     /\ file.size.v = file.end.v - file.start.v

\* the slice call breaks the caller's constraint of spec 4.1
InvalidSlice(ls) ==
  \/ IsInt(ls.a) /\ ls.a.v < 0
  \/ IsInt(ls.b) /\ ls.b.v < 0
  \/ IsInt(ls.a) /\ IsInt(ls.re) /\ ls.a.v > ls.re.v
  \/ IsInt(ls.b) /\ IsInt(ls.rs) /\ ls.b.v < ls.rs.v

\* C10: a slice call with a start beyond the current end, an end before the
\* current start or a negative offset fails and returns no File
C10_InvalidSliceRejected ==
  (nslices >= 1 /\ InvalidSlice(lastSlice)) => lastSlice.threw

\* C11: slice keeps the receiver's bound for each omitted argument and takes
\* the argument for each bound given: f.slice() spans [s, e), f.slice(a)
\* spans [a, e), f.slice(undefined, b) spans [s, b)
C11_OmittedBoundsKeep ==
  (nslices >= 1 /\ IsInt(lastSlice.rs) /\ IsInt(lastSlice.re)) =>
     /\ file.start = IF lastSlice.a = Undefined THEN lastSlice.rs ELSE lastSlice.a
     /\ file.end = IF lastSlice.b = Undefined THEN lastSlice.re ELSE lastSlice.b

\* the path lies in the tree rooted at Root
InsideRoot(p) == Len(p) >= Len(Root) /\ SubSeq(p, 1, Len(Root)) = Root

\* C12: a File opened through a filesystem-backed DirectoryTree was opened
\* at a location under the tree's root
C12_NoEscape == how = "tree" => InsideRoot(openedAbs)

\* the file most recently added under the name, 0 when never added
LastAdded(n) ==
  LET S == {i \in 1..Len(addLog) : n \in addLog[i]}
  IN IF S = {} THEN 0 ELSE CHOOSE i \in S : \A j \in S : j <= i

\* C13: an openFile for a path that was never added fails with the
\* no-such-file error, and the entries are exactly those added
C13_LookupNotFound ==
  kind = "browser" =>
     /\ (lookup # NoLookup /\ \A n \in Names : LastAdded(n) # 0 => lookup.path # Key(n))
           => lookup.out = NoSuchFile
     /\ \A n \in Names : (files[n] # 0) <=> (LastAdded(n) # 0)

\* C16: the in-memory tree holds exactly the added entries, each bound to
\* the most recently added file of its name; entries are never removed; and
\* openFile('/' + name) returns that file when the name was added and fails
\* otherwise
C16_BrowserTreeEntries ==
  /\ [](kind = "browser" => \A n \in Names : files[n] = LastAdded(n))
  /\ [][\A n \in Names : files[n] # 0 => files'[n] # 0]_vars
  /\ [][\A n \in Names :
          (kind = "browser" /\ lookup' # lookup /\ lookup'.path = Key(n)) =>
             lookup'.out = IF LastAdded(n) # 0 THEN FileObj(LastAdded(n))
                           ELSE NoSuchFile]_vars

\* a name was added twice and openFile returned the second file
C16_Witness ==
  /\ kind = "browser" /\ Len(addLog) = 2
  /\ \E n \in Names :
       /\ n \in addLog[1] /\ n \in addLog[2]
       /\ lookup = [path |-> Key(n), out |-> FileObj(2)]

\* the File spans a non-empty range inside the native file
NonEmptyRange ==
  /\ IsInt(file.start) /\ IsInt(file.end)
  /\ 0 <= file.start.v /\ file.start.v < file.end.v /\ file.end.v <= fileSize

\* C14: a stream() call made after an earlier stream of the File was fully
\* consumed gives a working sequence that delivers the File's bytes again
\* from its start: it is not errored and does not end empty
C14_SecondStreamFresh ==
  (phase = "streaming" /\ streamNo >= 2 /\ NonEmptyRange) =>
     /\ rsState # "errored"
     /\ ReadToEnd => (delivered # <<>> /\ delivered[1] = file.start.v)

\* C15: within one stream the bytes reach the consumer in file order: each
\* delivered byte lies at a higher offset than every byte delivered before
C15_FileOrder ==
  \A i, j \in 1..Len(delivered) : i < j => delivered[i] < delivered[j]

\* the bridge delivered a chunk, dropped the next during a pause, resumed and
\* delivered a later one
C15_Witness ==
  /\ kind = "node" /\ Len(delivered) >= 2
  /\ delivered[2] > delivered[1] + 1

\* C17: a seek range reader that has not pulled yet has not
\* seeked; the seek comes with the first pull
C17_SeekLazyOnFirstPull ==
  (kind = "deno" /\ phase = "streaming" /\ ~direct /\ reads = 0) => seeks = 0

\* C18: streaming a File that was never sliced performs no seek: stream()
\* hands out the handle's own readable
C18_WholeFileNoSeek ==
  (kind = "deno" /\ phase = "streaming" /\ nslices = 0) => (seeks = 0 /\ direct)

\* C19: in the bridge the producer is never left paused while the downstream
\* has positive desired capacity or a pending read, and a consumer that keeps
\* reading reaches end-of-sequence
C19_BridgeLive ==
  /\ []((kind = "node" /\ phase = "streaming" /\ started /\ ~flowing) =>
          (~readPending /\ DesiredSize(rsState, queue) <= 0))
  /\ []((kind = "node" /\ phase = "streaming") => <>eos)

\* the producer was paused on a full queue and the consumer still reached
\* end-of-sequence
C19_Witness ==
  /\ kind = "node" /\ phase = "streaming" /\ eos
  /\ Len(delivered) < NodeStop(file, fileSize) - NodeLo(file)

\* C20: in the seek range reader a read is issued only once start() (the
\* awaited seek, then getReader) has settled; every pull issues one read; a
\* settled pull has either enqueued one chunk or closed the stream, never
\* both; after the close nothing is read or enqueued
C20_ReadAfterSeek ==
  /\ [](kind = "deno" =>
          /\ (reads > 0 \/ pulling) => started
          /\ lastPull # "both"
          /\ closeCalls <= 1)
  /\ [][(kind = "deno" /\ streamNo' = streamNo) =>
          /\ reads' \in {reads, reads + 1}
          /\ reads' = reads + 1 => pulling'
          /\ (pulling /\ (dpos' # dpos \/ closeCalls' # closeCalls)) =>
               \/ /\ lastPull' = "close" /\ closeCalls' = closeCalls + 1
                  /\ dpos' = dpos /\ queue' = queue /\ delivered' = delivered
               \/ /\ lastPull' = "enqueue" /\ closeCalls' = closeCalls
                  /\ Len(queue') + Len(delivered') <= Len(queue) + Len(delivered) + ChunkLen
          /\ closeCalls >= 1 =>
               (reads' = reads /\ lastPull' = lastPull /\ Len(queue') <= Len(queue))]_vars

\* a stream whose pulls enqueued chunks and whose last pull closed it
C20_Witness ==
  kind = "deno" /\ lastPull = "close" /\ reads >= 2 /\ delivered # <<>> /\ eos

\* ----------------------------------------------- the bridge, read to its end
\* a consumer that keeps reading and never cancels, a producer that goes on
\* delivering its notifications while it is not paused
LiveInit == Init /\ kind = "node"

LiveNext ==
  \/ OpenFile
  \/ TreeOpenFile
  \/ SliceCall
  \/ StreamCall
  \/ StartResolved
  \/ NodeData
  \/ NodeCloseNote
  \/ Read

LiveSpec ==
  /\ LiveInit /\ [][LiveNext]_vars
  /\ WF_vars(StartResolved) /\ WF_vars(NodeData) /\ WF_vars(NodeCloseNote)
  /\ WF_vars(Read)
====
